---- MODULE Spec2Model ----
(***************************************************************************)
(* Model of build.cjs, the build orchestrator of the viper web IDE.        *)
(*                                                                         *)
(* Spec        the pipeline driver main() on a file system, together with  *)
(*             the two archive writes that genTar leaves running in the    *)
(*             background and the child processes started by run().        *)
(* SpecCopy    the same pipeline from the call of fs.cpSync on, entered    *)
(*             with an arbitrary destination directory.                    *)
(* SpecInline  combine() on token strings.                                 *)
(* SpecAgg     genTranslations() on a directory of JSON documents.         *)
(* SpecStamp   genManifest() on a package document and a template.         *)
(* SpecPack    genTar() run on two source directories.                     *)
(***************************************************************************)
EXTENDS Integers, Sequences, FiniteSets, TLC

VARIABLES
    pc,          \* the statement main() executes next
    fs,          \* the build directory: path -> what the path holds
    tar,         \* the two tar.c() jobs started by genTar: job -> state
    exit,        \* "running", or the exit code of the node process
    nodeModules, \* does ./node_modules exist
    child,       \* the commands given to run(): command -> how far it got
    unlinked,    \* the paths fs.unlinkSync has removed in this run
    html,        \* combine: the HTML document on disk (a token string)
    html0,       \* combine: the document before the first combine call
    compiled,    \* combine: the text of the four compiled files
    runs,        \* combine: number of combine calls made on the document
    threw,       \* combine: did the last call throw
    langDir,     \* genTranslations: file name -> text of the source directory
    table,       \* genTranslations: the table file written, or NoFile
    aggpc,       \* genTranslations: "start", "written", "threw"
    stampIn,     \* genManifest: the text of package.json and of the template
    manifest,    \* genManifest: the manifest file written, and how the call ended
    vfs,         \* genTar: two source directories and how each is listed
    archive      \* genTar: run -> the archive written for it

vars == <<pc, fs, tar, exit, nodeModules, child, unlinked,
          html, html0, compiled, runs, threw,
          langDir, table, aggpc, stampIn, manifest, vfs, archive>>

pipeVars == <<pc, fs, tar, exit, nodeModules, child, unlinked>>

inlineVars == <<html, html0, compiled, runs, threw>>

aggVars == <<langDir, table, aggpc>>

stampVars == <<stampIn, manifest>>

packVars == <<vfs, archive>>

(***************************************************************************)
(* PART 1.  The pipeline driver.                                           *)
(*                                                                         *)
(* A path is the tuple of its components.  fs maps every path of the build *)
(* directory to a tag that says what it holds:                             *)
(*   "absent"   nothing            "dir"       a directory                 *)
(*   "prev"     a file that was there before the run started               *)
(*   "source"   webrepl_content.js "static"    a file of ./assets          *)
(*   "table"    translations.json  "manifest"  the stamped manifest        *)
(*   "partial"  an archive that tar has created but not finished           *)
(*   "archive"  a complete archive "compiled"  an output of the bundler    *)
(*   "inlined"  an HTML document rewritten by combine                      *)
(*   "vendor"   a file copied from node_modules                            *)
(***************************************************************************)
B(name) == <<"build", name>>

A(name) == <<"build", "assets", name>>

BuildDir == <<"build">>

AssetsDir == <<"build", "assets">>

HtmlNames == {"index.html", "bridge.html", "benchmark.html"}

CompiledNames == {"app.css", "viper_lib.css", "app.js", "viper_lib.js"}

Intermediates == {B("translations.json")} \cup {B(n) : n \in CompiledNames}

\* what "npm run build" may emit into build/
BundlerOutputs == {B(n) : n \in HtmlNames \cup CompiledNames}

TopNames == {"webrepl_content.js", "translations.json", "manifest.json",
             "micropython.mjs"} \cup HtmlNames \cup CompiledNames

\* names the static asset tree ./assets may hold; two of them are names that
\* later statements of main() write under build/assets as well
StaticNames == {"logo.png", "tools_vfs.tar.gz", "micropython.wasm"}

ArchiveNames == {"tools_vfs.tar.gz", "vm_vfs.tar.gz"}

VendorAssetNames == {"micropython.wasm", "mpy-cross-v6.wasm", "ruff_wasm_bg.wasm"}

AssetNames == StaticNames \cup ArchiveNames \cup VendorAssetNames \cup {"stale.bin"}

Paths == {BuildDir, AssetsDir} \cup {B(n) : n \in TopNames} \cup {A(n) : n \in AssetNames}

Exists(p) == fs[p] # "absent"

IsFile(p) == fs[p] \notin {"absent", "dir"}

Jobs == {"tools", "vm"}

ArchivePath(job) == IF job = "tools" THEN A("tools_vfs.tar.gz") ELSE A("vm_vfs.tar.gz")

\* the statements of main(), in program order
Program == <<"rmSync", "mkdirSync", "copyWebrepl", "cpSync",
             "genTranslations", "genManifest", "genTarTools", "genTarVm",
             "existsSync", "npmInstall", "npmInstallWait", "eslint", "eslintWait",
             "build", "buildWait",
             "combineIndex", "combineBridge", "combineBenchmark",
             "unlinkTranslations", "unlinkAppCss", "unlinkLibCss", "unlinkAppJs",
             "unlinkLibJs",
             "vendorMpWasm", "vendorMpMjs", "vendorMpyCross", "vendorRuff",
             "log", "done">>

Rank(p) == CHOOSE i \in 1..Len(Program) : Program[i] = p

\* main() is suspended in an await of run(): a child process is running
WaitPcs == {"npmInstallWait", "eslintWait", "buildWait"}

\* the stage of section 4.5 a statement belongs to (8: the closing log line)
Stage(p) ==
    CASE p \in {"rmSync", "mkdirSync"} -> 1
      [] p \in {"copyWebrepl", "cpSync"} -> 2
      [] p \in {"genTranslations", "genManifest", "genTarTools", "genTarVm"} -> 3
      [] p \in {"existsSync", "npmInstall", "npmInstallWait", "eslint", "eslintWait",
                "build", "buildWait"} -> 4
      [] p \in {"combineIndex", "combineBridge", "combineBenchmark"} -> 5
      [] p \in {"unlinkTranslations", "unlinkAppCss", "unlinkLibCss", "unlinkAppJs",
                "unlinkLibJs"} -> 6
      [] p \in {"vendorMpWasm", "vendorMpMjs", "vendorMpyCross", "vendorRuff"} -> 7
      [] OTHER -> 8

Running == exit = "running"

At(p) == Running /\ pc = p

\* main() throws out of the statement at pc: the promise main() returned is
\* rejected and line 141 attaches no handler, so node ends the process with exit
\* code 1 (fs.cpSync exists from node 16.7 on, where an unhandled rejection is
\* fatal).  pc stays at the statement that threw; archive writes still in
\* flight are cut off where they are.
Throw == pc' = pc /\ exit' = "1"

Goto(p) == pc' = p /\ exit' = exit

(***************************************************************************)
(* Stage 1 and 2: reset and static inputs (lines 89-95).                   *)
(***************************************************************************)
\* RmSync as it would be if the removal spared what lies under build/assets
RmSync_KeepsAssets ==
    /\ At("rmSync")
    /\ fs' = [p \in Paths |-> IF Len(p) = 3 \/ p = AssetsDir \/ p = BuildDir
                               THEN fs[p] ELSE "absent"]
    /\ Goto("mkdirSync")
    /\ UNCHANGED <<tar, nodeModules, child, unlinked,
                   inlineVars, aggVars, stampVars, packVars>>

\* line 89: rmSync("build", {recursive, force}) removes the whole tree, or
\* throws (a permission error, say) and leaves it
RmSync ==
    /\ At("rmSync")
    /\ \E ok \in BOOLEAN :
          IF ok
          THEN /\ fs' = [p \in Paths |-> "absent"]
               /\ Goto("mkdirSync")
          ELSE /\ fs' = fs
               /\ Throw
    /\ UNCHANGED <<tar, nodeModules, child, unlinked,
                   inlineVars, aggVars, stampVars, packVars>>

\* line 90: mkdirSync("build/assets", {recursive}) makes both directories
MkdirSync ==
    /\ At("mkdirSync")
    /\ \E ok \in BOOLEAN :
          IF ok
          THEN /\ fs' = [fs EXCEPT ![BuildDir] = "dir", ![AssetsDir] = "dir"]
               /\ Goto("copyWebrepl")
          ELSE /\ fs' = fs
               /\ Throw
    /\ UNCHANGED <<tar, nodeModules, child, unlinked,
                   inlineVars, aggVars, stampVars, packVars>>

\* copyFileSync(src, dst): overwrites dst; throws when src is missing
CopyFileSync(here, dst, tag, next) ==
    /\ At(here)
    /\ \E srcExists \in BOOLEAN :
          IF srcExists /\ fs[BuildDir] = "dir"
          THEN /\ fs' = [fs EXCEPT ![dst] = tag]
               /\ Goto(next)
          ELSE /\ fs' = fs
               /\ Throw
    /\ UNCHANGED <<tar, nodeModules, child, unlinked,
                   inlineVars, aggVars, stampVars, packVars>>

\* line 91
CopyWebrepl == CopyFileSync("copyWebrepl", B("webrepl_content.js"), "source", "cpSync")

\* the options of the fs.cpSync call of lines 92-95: errorOnExist is passed,
\* force is not and so has node's default, true
cpForce == TRUE

cpErrorOnExist == TRUE

\* fs.cpSync(src, dest, {recursive, force, errorOnExist}) on a destination
\* entry that exists: force unlinks it and copies over it; without force it
\* throws if errorOnExist and silently keeps the old entry otherwise.
\* The result: may the copy go on, and is the entry written.
cpOnExisting == [throws |-> ~cpForce /\ cpErrorOnExist, writes |-> cpForce]

\* lines 92-95: copy the tree ./assets (the files named in tree) into
\* build/assets.  When the copy throws on a colliding entry, the entries
\* visited before it have been copied.
CpSync ==
    /\ At("cpSync")
    /\ \E tree \in SUBSET StaticNames, ok \in BOOLEAN :
          LET colliding == {n \in tree : Exists(A(n))}
              fresh == tree \ colliding
          IN  IF ~ok
              THEN fs' = fs /\ Throw
              ELSE IF colliding # {} /\ cpOnExisting.throws
              THEN /\ \E copied \in SUBSET fresh :
                         fs' = [p \in Paths |->
                                  IF p \in {A(n) : n \in copied} THEN "static" ELSE fs[p]]
                   /\ Throw
              ELSE /\ fs' = [p \in Paths |->
                               IF \/ p \in {A(n) : n \in fresh}
                                  \/ p \in {A(n) : n \in colliding} /\ cpOnExisting.writes
                               THEN "static" ELSE fs[p]]
                   /\ Goto("genTranslations")
    /\ UNCHANGED <<tar, nodeModules, child, unlinked,
                   inlineVars, aggVars, stampVars, packVars>>

(***************************************************************************)
(* Stage 3: intermediates (lines 96-99).                                   *)
(***************************************************************************)
\* line 96: genTranslations writes the table unless a source document is
\* unreadable or malformed (PART 3 models the function itself)
GenTranslations ==
    /\ At("genTranslations")
    /\ \E ok \in BOOLEAN :
          IF ok
          THEN fs' = [fs EXCEPT ![B("translations.json")] = "table"] /\ Goto("genManifest")
          ELSE fs' = fs /\ Throw
    /\ UNCHANGED <<tar, nodeModules, child, unlinked,
                   inlineVars, aggVars, stampVars, packVars>>

\* line 97: genManifest
GenManifest ==
    /\ At("genManifest")
    /\ \E ok \in BOOLEAN :
          IF ok
          THEN fs' = [fs EXCEPT ![B("manifest.json")] = "manifest"] /\ Goto("genTarTools")
          ELSE fs' = fs /\ Throw
    /\ UNCHANGED <<tar, nodeModules, child, unlinked,
                   inlineVars, aggVars, stampVars, packVars>>

\* genTar, lines 50-61: readdirSync(src) runs synchronously and may throw.
\* tar.c is called with a file and neither sync: true nor a callback, so it
\* starts the archive write and returns a promise at once; genTar drops the
\* promise and returns.  The job is left "queued": its open of the destination
\* has been handed to the thread pool.
genTar(here, job, next) ==
    /\ At(here)
    /\ \E readdirOk \in BOOLEAN :
          IF readdirOk
          THEN tar' = [tar EXCEPT ![job] = "queued"] /\ Goto(next)
          ELSE tar' = tar /\ Throw
    /\ UNCHANGED <<fs, nodeModules, child, unlinked, inlineVars, aggVars, stampVars, packVars>>

\* line 98
GenTarTools == genTar("genTarTools", "tools", "genTarVm")

\* line 99
GenTarVm == genTar("genTarVm", "vm", "existsSync")

(***************************************************************************)
(* The archive writes that genTar started.  The thread pool performs the   *)
(* file operations at any time while the process lives; the callbacks that *)
(* feed the next chunk, close the file and settle the promise run only     *)
(* when the event loop is free, which is while main() is suspended in an   *)
(* await or has returned.                                                  *)
(***************************************************************************)
LoopFree == Running /\ pc \in WaitPcs \cup {"done"}

\* the destination is opened for writing: created, or truncated if it exists
TarOpen(job) ==
    /\ Running /\ tar[job] = "queued"
    /\ tar' = [tar EXCEPT ![job] = "partial"]
    /\ fs' = [fs EXCEPT ![ArchivePath(job)] = "partial"]
    /\ UNCHANGED <<pc, exit, nodeModules, child, unlinked,
                   inlineVars, aggVars, stampVars, packVars>>

\* opening the destination, reading a source entry or writing a chunk fails
TarFail(job) ==
    /\ Running /\ tar[job] \in {"queued", "partial"}
    /\ tar' = [tar EXCEPT ![job] = "errored"]
    /\ UNCHANGED <<pc, fs, exit, nodeModules, child, unlinked,
                   inlineVars, aggVars, stampVars, packVars>>

\* the last chunk is written and the file closed: the promise resolves
TarClose(job) ==
    /\ LoopFree /\ tar[job] = "partial"
    /\ tar' = [tar EXCEPT ![job] = "closed"]
    /\ fs' = [fs EXCEPT ![ArchivePath(job)] = "archive"]
    /\ UNCHANGED <<pc, exit, nodeModules, child, unlinked,
                   inlineVars, aggVars, stampVars, packVars>>

\* the promise of a failed job is rejected; genTar kept no handle on it, the
\* rejection is unhandled and node ends the process with exit code 1
TarReject(job) ==
    /\ LoopFree /\ tar[job] = "errored"
    /\ exit' = "1"
    /\ UNCHANGED <<pc, fs, tar, nodeModules, child, unlinked,
                   inlineVars, aggVars, stampVars, packVars>>

(***************************************************************************)
(* Stage 4: external tools (lines 14-24, 102-106).                         *)
(***************************************************************************)
\* line 102
ExistsSync ==
    /\ At("existsSync")
    /\ Goto(IF nodeModules THEN "eslint" ELSE "npmInstall")
    /\ UNCHANGED <<fs, tar, nodeModules, child, unlinked,
                   inlineVars, aggVars, stampVars, packVars>>

\* the commands main() gives to run(), lines 103, 105 and 106
Commands == {"npm install", "npx eslint", "npm run build"}

\* the command main() awaits at a suspended statement
Command(wait) ==
    CASE wait = "npmInstallWait" -> "npm install"
      [] wait = "eslintWait" -> "npx eslint"
      [] wait = "buildWait" -> "npm run build"

\* run(cmd), line 16: exec starts the child and main() is suspended
runStart(here, wait) ==
    /\ At(here)
    /\ Goto(wait)
    /\ child' = [child EXCEPT ![Command(wait)] = "running"]
    /\ UNCHANGED <<fs, tar, nodeModules, unlinked, inlineVars, aggVars, stampVars, packVars>>

\* runEnd as it would be if run() logged a failed command and returned
runEnd_IgnoresFailure(wait, next, outputs, installs) ==
    /\ At(wait)
    /\ \E ok \in BOOLEAN, written \in SUBSET outputs :
          /\ fs' = [p \in Paths |-> IF ok /\ p \in written THEN "compiled" ELSE fs[p]]
          /\ nodeModules' = (nodeModules \/ (ok /\ installs))
          /\ child' = [child EXCEPT ![Command(wait)] = IF ok THEN "ok" ELSE "failed"]
          /\ Goto(next)
    /\ UNCHANGED <<tar, unlinked, inlineVars, aggVars, stampVars, packVars>>

\* run(cmd), lines 16-23: the child has ended; a non-zero exit or a spawn
\* error is rethrown.  written: the files the child left in build/.
runEnd(wait, next, outputs, installs) ==
    /\ At(wait)
    /\ \E ok \in BOOLEAN, written \in SUBSET outputs :
          IF ok
          THEN /\ fs' = [p \in Paths |-> IF p \in written THEN "compiled" ELSE fs[p]]
               /\ nodeModules' = (nodeModules \/ installs)
               /\ child' = [child EXCEPT ![Command(wait)] = "ok"]
               /\ Goto(next)
          ELSE /\ fs' = fs /\ nodeModules' = nodeModules
               /\ child' = [child EXCEPT ![Command(wait)] = "failed"]
               /\ Throw
    /\ UNCHANGED <<tar, unlinked, inlineVars, aggVars, stampVars, packVars>>

\* line 103
NpmInstallStart == runStart("npmInstall", "npmInstallWait")

NpmInstallEnd == runEnd("npmInstallWait", "eslint", {}, TRUE)

\* line 105
EslintStart == runStart("eslint", "eslintWait")

EslintEnd == runEnd("eslintWait", "build", {}, FALSE)

\* line 106
BuildStart == runStart("build", "buildWait")

BuildEnd == runEnd("buildWait", "combineIndex", BundlerOutputs, FALSE)

(***************************************************************************)
(* Stage 5, 6, 7 (lines 109-138).                                          *)
(***************************************************************************)
\* combineFile as it would be if a failed combine were logged and passed over
combineFile_Lenient(here, doc, next) ==
    /\ At(here)
    /\ IF IsFile(doc) /\ \A n \in CompiledNames : IsFile(B(n))
       THEN fs' = [fs EXCEPT ![doc] = "inlined"]
       ELSE fs' = fs
    /\ Goto(next)
    /\ UNCHANGED <<tar, nodeModules, child, unlinked,
                   inlineVars, aggVars, stampVars, packVars>>

\* combine(filePath), lines 64-84, on the file system: the document and the
\* four compiled files are read (readFileSync throws on a missing file) before
\* the document is written back.  PART 2 models the rewriting itself.
combineFile(here, doc, next) ==
    /\ At(here)
    /\ IF IsFile(doc) /\ \A n \in CompiledNames : IsFile(B(n))
       THEN fs' = [fs EXCEPT ![doc] = "inlined"] /\ Goto(next)
       ELSE fs' = fs /\ Throw
    /\ UNCHANGED <<tar, nodeModules, child, unlinked,
                   inlineVars, aggVars, stampVars, packVars>>

\* line 109
CombineIndex == combineFile("combineIndex", B("index.html"), "combineBridge")

\* line 110
CombineBridge == combineFile("combineBridge", B("bridge.html"), "combineBenchmark")

\* line 111
CombineBenchmark == combineFile("combineBenchmark", B("benchmark.html"), "unlinkTranslations")

\* fs.unlinkSync(path): throws when there is no such file
unlinkSync(here, path, next) ==
    /\ At(here)
    /\ IF IsFile(path)
       THEN /\ fs' = [fs EXCEPT ![path] = "absent"]
            /\ unlinked' = unlinked \cup {path}
            /\ Goto(next)
       ELSE fs' = fs /\ unlinked' = unlinked /\ Throw
    /\ UNCHANGED <<tar, nodeModules, child, inlineVars, aggVars, stampVars, packVars>>

\* line 114
UnlinkTranslations == unlinkSync("unlinkTranslations", B("translations.json"), "unlinkAppCss")

\* line 115
UnlinkAppCss == unlinkSync("unlinkAppCss", B("app.css"), "unlinkLibCss")

\* line 116
UnlinkLibCss == unlinkSync("unlinkLibCss", B("viper_lib.css"), "unlinkAppJs")

\* line 117
UnlinkAppJs == unlinkSync("unlinkAppJs", B("app.js"), "unlinkLibJs")

\* UnlinkLibJs as it would be if the statement of line 118 were missing
UnlinkLibJs_Skipped ==
    /\ At("unlinkLibJs")
    /\ Goto("vendorMpWasm")
    /\ UNCHANGED <<fs, tar, nodeModules, child, unlinked,
                   inlineVars, aggVars, stampVars, packVars>>

\* line 118
UnlinkLibJs == unlinkSync("unlinkLibJs", B("viper_lib.js"), "vendorMpWasm")

\* lines 121-124
VendorMpWasm == CopyFileSync("vendorMpWasm", A("micropython.wasm"), "vendor", "vendorMpMjs")

\* lines 125-128
VendorMpMjs == CopyFileSync("vendorMpMjs", B("micropython.mjs"), "vendor", "vendorMpyCross")

\* lines 129-132
VendorMpyCross == CopyFileSync("vendorMpyCross", A("mpy-cross-v6.wasm"), "vendor", "vendorRuff")

\* lines 133-136
VendorRuff == CopyFileSync("vendorRuff", A("ruff_wasm_bg.wasm"), "vendor", "log")

\* line 138: "Build complete." is printed and main() returns
LogComplete ==
    /\ At("log")
    /\ Goto("done")
    /\ UNCHANGED <<fs, tar, nodeModules, child, unlinked,
                   inlineVars, aggVars, stampVars, packVars>>

\* main() has returned and nothing is pending: node exits with code 0
ExitZero ==
    /\ At("done")
    /\ \A j \in Jobs : tar[j] = "closed"
    /\ exit' = "0"
    /\ UNCHANGED <<pc, fs, tar, nodeModules, child, unlinked,
                   inlineVars, aggVars, stampVars, packVars>>

(***************************************************************************)
(* The pipeline's specifications.                                          *)
(***************************************************************************)
\* the variables of the later parts, which the pipeline does not use
NoInline == html = <<>> /\ html0 = <<>> /\ compiled = <<>> /\ runs = 0 /\ threw = FALSE

NoAgg == langDir = <<>> /\ table = <<>> /\ aggpc = "off"

NoStamp == stampIn = <<>> /\ manifest = <<>>

NoPack == vfs = <<>> /\ archive = <<>>

\* files a previous run, finished or failed, may have left in build/
PrevFiles == {B("index.html"), B("translations.json"), A("logo.png"), A("stale.bin")}

\* the state in which node starts main(): build/ holds whatever was left there
Init ==
    /\ pc = "rmSync"
    /\ \E left \in SUBSET PrevFiles, hadBuild \in BOOLEAN :
          fs = [p \in Paths |->
                  IF p \in left THEN "prev"
                  ELSE IF p = BuildDir /\ (hadBuild \/ left # {}) THEN "dir"
                  ELSE IF p = AssetsDir /\ left \cap {A(n) : n \in AssetNames} # {} THEN "dir"
                  ELSE "absent"]
    /\ tar = [j \in Jobs |-> "none"]
    /\ exit = "running"
    /\ nodeModules \in BOOLEAN
    /\ child = [c \in Commands |-> "none"]
    /\ unlinked = {}
    /\ NoInline /\ NoAgg /\ NoStamp /\ NoPack

\* the statements after the static inputs are staged
AfterStaging ==
    \/ GenTranslations \/ GenManifest \/ GenTarTools \/ GenTarVm
    \/ ExistsSync \/ NpmInstallStart \/ NpmInstallEnd
    \/ EslintStart \/ EslintEnd \/ BuildStart \/ BuildEnd
    \/ CombineIndex \/ CombineBridge \/ CombineBenchmark
    \/ UnlinkTranslations \/ UnlinkAppCss \/ UnlinkLibCss \/ UnlinkAppJs \/ UnlinkLibJs
    \/ VendorMpWasm \/ VendorMpMjs \/ VendorMpyCross \/ VendorRuff
    \/ LogComplete \/ ExitZero

Archiver == \E j \in Jobs : TarOpen(j) \/ TarFail(j) \/ TarClose(j) \/ TarReject(j)

Next == RmSync \/ MkdirSync \/ CopyWebrepl \/ CpSync \/ AfterStaging \/ Archiver

Spec == Init /\ [][Next]_vars

\* The copy of lines 92-95 on an arbitrary destination: main() stands before
\* the fs.cpSync call and build/assets already holds the entries in there.
\* A run of main() alone always arrives here with build/assets empty; entries
\* can only have been put there from outside the run.
InitCopy ==
    /\ pc = "cpSync"
    /\ \E there \in SUBSET {A(n) : n \in StaticNames} :
          fs = [p \in Paths |->
                  IF p \in there THEN "prev"
                  ELSE IF p \in {BuildDir, AssetsDir} THEN "dir"
                  ELSE IF p = B("webrepl_content.js") THEN "source"
                  ELSE "absent"]
    /\ tar = [j \in Jobs |-> "none"]
    /\ exit = "running"
    /\ nodeModules = TRUE
    /\ child = [c \in Commands |-> "none"]
    /\ unlinked = {}
    /\ NoInline /\ NoAgg /\ NoStamp /\ NoPack

NextCopy == CpSync \/ AfterStaging \/ Archiver

SpecCopy == InitCopy /\ [][NextCopy]_vars

(***************************************************************************)
(* Claims about the pipeline.                                              *)
(***************************************************************************)
\* an external tool has been started, or a stage after the tools is reached
ToolStartedOrLater == pc \in WaitPcs \/ Stage(pc) >= 5

\* main() executes the statement at pc and goes on to the next one
MainStep == pc' # pc

ArchiveFailed == \E j \in Jobs : tar[j] = "errored"

\* C1: archive creation is awaited: once an external tool has been started, and
\* in every later stage, both archives are completely written and no archive
\* write is in progress.
C1_ArchivesAwaited ==
    ToolStartedOrLater =>
        \A j \in Jobs : tar[j] = "closed" /\ fs[ArchivePath(j)] = "archive"

\* C2: the pipeline is fail-fast: once a statement of main() has thrown, main()
\* executes nothing more; once an archive write of stage 3 has failed, main()
\* executes no statement of a later stage; no statement is executed twice; and
\* a run in which a stage failed never ends with exit code 0.
C2_FailFast ==
    [][ /\ exit = "1" => ~MainStep
        /\ (ArchiveFailed /\ MainStep) => Stage(pc) <= 3
        /\ MainStep => Rank(pc') > Rank(pc)
        /\ ArchiveFailed' => exit' # "0" ]_vars

\* the outputs of section 6: stamped manifest, both complete archives, the
\* vendored binaries and the three inlined entry points
FullyPopulated ==
    /\ fs[B("manifest.json")] = "manifest"
    /\ \A j \in Jobs : fs[ArchivePath(j)] = "archive"
    /\ \A n \in VendorAssetNames : fs[A(n)] = "vendor"
    /\ fs[B("micropython.mjs")] = "vendor"
    /\ \A n \in HtmlNames : fs[B(n)] = "inlined"

\* C3: a run never reports success ("Build complete." printed, or exit code 0)
\* while an output is missing or incompletely written.
C3_SuccessMeansComplete == (pc = "done" \/ exit = "0") => FullyPopulated

\* C4: after an archive write has failed, main() does not go on to start the
\* installer, the linter or the bundler, nor to execute a statement of a later
\* stage.
C4_ArchiveFailureStopsRun ==
    [][ (ArchiveFailed /\ MainStep) =>
            ~(pc \in {"npmInstall", "eslint", "build"} \/ Stage(pc) >= 5) ]_vars

\* C5: Reset is the first operation and recreates the build directory: before
\* it nothing has been written; immediately after it build/ holds nothing but
\* the empty assets directory; and from then on no file of a previous run
\* is present.
C5_ResetRecreates ==
    /\ Stage(pc) = 1 =>
          /\ \A p \in Paths : fs[p] \in {"absent", "dir", "prev"}
          /\ \A j \in Jobs : tar[j] = "none"
    /\ pc = "copyWebrepl" =>
          \A p \in Paths : fs[p] = IF p \in {BuildDir, AssetsDir} THEN "dir" ELSE "absent"
    /\ Stage(pc) > 1 => \A p \in Paths : fs[p] # "prev"

\* C5 witness: Reset has just run and left the empty directory pair
C5_Witness ==
    /\ pc = "copyWebrepl" /\ Running
    /\ fs[AssetsDir] = "dir"
    /\ \A p \in Paths \ {BuildDir, AssetsDir} : fs[p] = "absent"

C9_NoLeftovers ==
    pc = "done" =>
        /\ \A p \in Intermediates : fs[p] = "absent"
        /\ \A n \in HtmlNames : IsFile(B(n))
        /\ IsFile(B("manifest.json"))
        /\ fs[AssetsDir] = "dir"

\* C9 witness: a run that ended with exit code 0 after Cleanup removed all five
C9_Witness ==
    /\ exit = "0" /\ pc = "done"
    /\ \A p \in Intermediates : fs[p] = "absent"

(***************************************************************************)
(* PART 2.  The Document Inliner, combine (lines 64-84), on strings.       *)
(*                                                                         *)
(* A text is a sequence of tokens.  Each of the four placeholder literals  *)
(* of lines 68, 72, 76 and 80 is one token, and so is each of the four     *)
(* wrappers the template literals put around a file's text.  That loses    *)
(* nothing: a placeholder begins with "<" and holds no line break, every   *)
(* wrapper has a line break on its inner side and "<style" or "<script>"   *)
(* on the outer, so no occurrence of a placeholder can straddle the edge   *)
(* of an inserted block, and no two occurrences can overlap.  The other    *)
(* tokens are single characters.                                           *)
(***************************************************************************)
LinkAppCss == "<link rel=\"stylesheet\" href=\"./app.css\">"

LinkLibCss == "<link rel=\"stylesheet\" href=\"./viper_lib.css\">"

ScriptAppJs == "<script src=\"./app.js\"></script>"

ScriptLibJs == "<script src=\"./viper_lib.js\"></script>"

Placeholders == {LinkAppCss, LinkLibCss, ScriptAppJs, ScriptLibJs}

\* the compiled file each placeholder refers to
FileOf(ph) ==
    CASE ph = LinkAppCss -> "app.css"
      [] ph = LinkLibCss -> "viper_lib.css"
      [] ph = ScriptAppJs -> "app.js"
      [] ph = ScriptLibJs -> "viper_lib.js"

\* what readFileSync finds where a file does not exist: the read throws
NoFile == <<"ENOENT">>

\* the template literals of lines 69, 73, 77, 81 around a file's text
Block(file, text) ==
    IF file \in {"app.css", "viper_lib.css"}
    THEN <<"<style>\n">> \o text \o <<"\n</style>">>
    ELSE <<"<script>\n">> \o text \o <<"\n</script>">>

\* String.prototype.indexOf for a one-token pattern: the first position, or 0
IndexOf(str, pattern) ==
    IF \E i \in 1..Len(str) : str[i] = pattern
    THEN CHOOSE i \in 1..Len(str) :
             str[i] = pattern /\ \A k \in 1..(i - 1) : str[k] # pattern
    ELSE 0

\* the grave accent character (U+0060) and the apostrophe, as tokens
Grave == "GRAVE"

Apostrophe == "'"

\* GetSubstitution of ECMAScript, as String.prototype.replace applies it to a
\* replacement string when the pattern is a string (no capture groups):
\*   $$ is a "$"; $& is the matched text; "$" and a grave accent is the text
\*   before the match; "$" and an apostrophe is the text after it; "$" followed
\*   by anything else stands for itself.
RECURSIVE GetSubstitution(_, _, _, _)
GetSubstitution(matched, str, position, replacement) ==
    IF replacement = <<>> THEN <<>>
    ELSE IF Head(replacement) = "$" /\ Len(replacement) >= 2
    THEN LET c == replacement[2]
             rest == SubSeq(replacement, 3, Len(replacement))
         IN  CASE c = "$" -> <<"$">> \o GetSubstitution(matched, str, position, rest)
               [] c = "&" -> matched \o GetSubstitution(matched, str, position, rest)
               [] c = Grave -> SubSeq(str, 1, position - 1)
                                \o GetSubstitution(matched, str, position, rest)
               [] c = Apostrophe -> SubSeq(str, position + Len(matched), Len(str))
                                \o GetSubstitution(matched, str, position, rest)
               [] OTHER -> <<"$">> \o GetSubstitution(matched, str, position,
                                                      Tail(replacement))
    ELSE <<Head(replacement)>> \o GetSubstitution(matched, str, position,
                                                  Tail(replacement))

\* Replace as it would be if the text after the match were lost
Replace_DropsRest(str, pattern, replacement) ==
    LET i == IndexOf(str, pattern)
    IN  IF i = 0 THEN str
        ELSE SubSeq(str, 1, i - 1) \o GetSubstitution(<<pattern>>, str, i, replacement)

\* str.replace(pattern, replacement) with a string pattern: the first
\* occurrence only; str itself when the pattern does not occur
Replace(str, pattern, replacement) ==
    LET i == IndexOf(str, pattern)
    IN  IF i = 0 THEN str
        ELSE SubSeq(str, 1, i - 1)
                \o GetSubstitution(<<pattern>>, str, i, replacement)
                \o SubSeq(str, i + 1, Len(str))

\* one link of the chain of lines 66-82
ReplaceStep(content, ph, files) == Replace(content, ph, Block(FileOf(ph), files[FileOf(ph)]))

\* the order in which lines 67-82 apply the replacements
CodeOrder == <<LinkAppCss, LinkLibCss, ScriptAppJs, ScriptLibJs>>

\* the 24 orders in which the four replacements of lines 67-82 can be applied
ReplacementOrders ==
    {o \in [1..4 -> Placeholders] : {o[i] : i \in 1..4} = Placeholders}

RECURSIVE ReplaceAll(_, _, _)
ReplaceAll(content, order, files) ==
    IF order = <<>> THEN content
    ELSE ReplaceAll(ReplaceStep(content, Head(order), files), Tail(order), files)

\* lines 65-82: the text combine computes; all four files are read
combineText(content, files) == ReplaceAll(content, CodeOrder, files)

\* combineThrows as it would be if a failed read gave the error's name as text
combineThrows_Never(files) == FALSE

\* lines 69, 73, 77, 81: a read of a missing file throws
combineThrows(files) == \E f \in CompiledNames : files[f] = NoFile

(***************************************************************************)
(* Inputs of the inliner and its specification.                            *)
(***************************************************************************)
MaxDocLen == 4

MaxVaried == 1

MaxRuns == 2

\* a document: placeholders and other text "t", in any number and order
DocTokens == Placeholders \cup {"t"}

\* the text that may stand before, between and after the placeholders
Fillers == {<<>>, <<"t">>}

\* the documents that hold each placeholder once, in any order, with or
\* without other text around each
FramedDocs ==
    {f[1] \o <<o[1]>> \o f[2] \o <<o[2]>> \o f[3] \o <<o[3]>> \o f[4] \o <<o[4]>> \o f[5] :
        o \in ReplacementOrders, f \in [1..5 -> Fillers]}

Docs == UNION {[1..n -> DocTokens] : n \in 0..MaxDocLen} \cup FramedDocs

\* the plain text of a compiled file, and the texts that put a "$" pattern or
\* the text of a placeholder into the file
PlainText == <<"a">>

VariedTexts == {<<"$", "$">>, <<"$", "&">>, <<"$", Grave>>, <<"$", Apostrophe>>,
                <<"b", ScriptLibJs>>, NoFile}

\* the four compiled files: at most MaxVaried of them differ from PlainText
Contents ==
    {c \in [CompiledNames -> {PlainText} \cup VariedTexts] :
        Cardinality({f \in CompiledNames : c[f] # PlainText}) <= MaxVaried}

NoPipe ==
    /\ pc = "off" /\ fs = <<>> /\ tar = <<>> /\ exit = "off"
    /\ nodeModules = FALSE /\ child = <<>> /\ unlinked = {}

InitInline ==
    /\ html0 \in Docs
    /\ html = html0
    /\ compiled \in Contents
    /\ runs = 0
    /\ threw = FALSE
    /\ NoPipe /\ NoAgg /\ NoStamp /\ NoPack

\* combine(filePath), lines 64-84: read the document, rewrite it, write it
\* back; nothing is written when a read throws
Combine ==
    /\ runs < MaxRuns
    /\ runs' = runs + 1
    /\ IF combineThrows(compiled)
       THEN html' = html /\ threw' = TRUE
       ELSE html' = combineText(html, compiled) /\ threw' = FALSE
    /\ UNCHANGED <<html0, compiled, pipeVars, aggVars, stampVars, packVars>>

NextInline == Combine

SpecInline == InitInline /\ [][NextInline]_vars

\* number of positions of str at which sub occurs
CountSub(str, sub) ==
    Cardinality({i \in 1..(Len(str) - Len(sub) + 1) :
                    SubSeq(str, i, i + Len(sub) - 1) = sub})

\* the document holds each of the four placeholders exactly once
WellFormed(document) == \A ph \in Placeholders : CountSub(document, <<ph>>) = 1

\* no compiled file's own text holds the text of a placeholder
NoPlaceholderInFiles ==
    \A f \in CompiledNames : \A ph \in Placeholders : CountSub(compiled[f], <<ph>>) = 0

\* C7: a document with each placeholder exactly once, files that can all be
\* read (and do not themselves quote a placeholder): after combine no
\* placeholder occurs, and each of the four blocks (a file's full text in its
\* wrapper) occurs once; blocks of files with the same text are the same
\* block and are counted together.
C7_InlinesEachOnce ==
    (WellFormed(html0) /\ NoPlaceholderInFiles /\ runs = 1 /\ ~threw) =>
        /\ \A ph \in Placeholders : CountSub(html, <<ph>>) = 0
        /\ \A f \in CompiledNames :
              CountSub(html, Block(f, compiled[f])) =
                  Cardinality({g \in CompiledNames :
                                  Block(g, compiled[g]) = Block(f, compiled[f])})

\* C8: a call on a document in which no placeholder occurs throws nothing and
\* changes nothing, and a second call on a well-formed document that the
\* first call has inlined (from files that do not themselves quote a
\* placeholder) leaves it as the first call wrote it.
C8_SecondRunIsNoOp ==
    [][ (runs' = runs + 1 /\ ~combineThrows(compiled)) =>
           /\ ~threw'
           /\ (\A ph \in Placeholders : CountSub(html, <<ph>>) = 0) => html' = html
           /\ (runs = 1 /\ WellFormed(html0) /\ NoPlaceholderInFiles) => html' = html ]_vars

(***************************************************************************)
(* PART 3.  The Aggregator, genTranslations (lines 32-39).                 *)
(*                                                                         *)
(* A file name is the sequence of its dot-separated parts, each part but   *)
(* the first written with its leading dot: en.json is <<"en", ".json">>.   *)
(* A JSON text is a sequence of tokens; the documents are flat objects of  *)
(* message keys and strings.                                               *)
(***************************************************************************)
\* the per-language documents a source directory may hold
LangDocNames == {<<"en", ".json">>, <<"fr", ".json">>, <<"pt", ".br", ".json">>}

\* other files it may hold: a text file, a backup copy, a hidden JSON file
OtherNames == {<<"README", ".md">>, <<"en", ".json", ".bak">>, <<".cache", ".json">>}

FileNames == LangDocNames \cup OtherNames

\* the parts that begin with a dot
DotParts == {".json", ".md", ".bak", ".br", ".cache"}

\* glob.sync("*.json", {cwd: src}), line 34: the entries of the directory that
\* end in ".json"; "*" matches no name that begins with a dot
Glob(names) == {n \in names : n[Len(n)] = ".json" /\ n[1] \notin DotParts}

\* Basename as it would be if the suffix argument were left out
Basename_KeepsExt(file, ext) == file

\* path.basename(file, ".json"), line 35: the name without the suffix, unless
\* the suffix is the whole name
Basename(file, ext) ==
    IF Len(file) >= 2 /\ file[Len(file)] = ext
    THEN SubSeq(file, 1, Len(file) - 1)
    ELSE file

Punctuation == {"{", "}", ":", ","}

JsonTexts == {<<"{", "}">>,
              <<"{", "hi", ":", "Hello", "}">>,
              <<"{", "hi", ":", "Salut", ",", "bye", ":", "Adieu", "}">>,
              <<"{", "hi", ":", "Ola", ",", "hi", ":", "Oi", "}">>,
              <<"{", "hi", ":">>,
              <<>>}

\* the members of an object after "{" or ",": key ":" string, then "," or "}"
RECURSIVE ParseMembers(_)
ParseMembers(toks) ==
    IF /\ Len(toks) >= 4
       /\ toks[1] \notin Punctuation /\ toks[2] = ":" /\ toks[3] \notin Punctuation
    THEN IF toks[4] = "}"
         THEN [ok |-> Len(toks) = 4, pairs |-> <<<<toks[1], toks[3]>>>>]
         ELSE IF toks[4] = ","
         THEN LET more == ParseMembers(SubSeq(toks, 5, Len(toks)))
              IN  [ok |-> more.ok, pairs |-> <<<<toks[1], toks[3]>>>> \o more.pairs]
         ELSE [ok |-> FALSE, pairs |-> <<>>]
    ELSE [ok |-> FALSE, pairs |-> <<>>]

\* the object a list of members denotes: a repeated key keeps its last value
ObjectOf(pairs) ==
    [k \in {pairs[i][1] : i \in 1..Len(pairs)} |->
        pairs[CHOOSE i \in 1..Len(pairs) :
                 pairs[i][1] = k /\ \A j \in (i + 1)..Len(pairs) : pairs[j][1] # k][2]]

\* JSON.parse, line 36: ok is FALSE where JSON.parse throws a SyntaxError
JsonParse(text) ==
    IF text = <<"{", "}">> THEN [ok |-> TRUE, value |-> <<>>]
    ELSE IF Len(text) >= 1 /\ text[1] = "{"
    THEN LET m == ParseMembers(Tail(text))
         IN  IF m.ok THEN [ok |-> TRUE, value |-> ObjectOf(m.pairs)]
             ELSE [ok |-> FALSE, value |-> <<>>]
    ELSE [ok |-> FALSE, value |-> <<>>]

\* ForEach as it would be if a document that does not parse were passed over
RECURSIVE ForEach_SkipsMalformed(_, _, _)
ForEach_SkipsMalformed(result, order, dir) ==
    IF order = <<>> THEN [ok |-> TRUE, result |-> result]
    ELSE LET file == Head(order)
             parsed == JsonParse(dir[file])
         IN  IF parsed.ok
             THEN ForEach_SkipsMalformed((Basename(file, ".json") :> parsed.value) @@ result,
                                         Tail(order), dir)
             ELSE ForEach_SkipsMalformed(result, Tail(order), dir)

\* lines 33-37: the forEach over the files in the order glob returned them;
\* result[lang] = ... adds the key or overwrites it; a throw ends the loop
RECURSIVE ForEach(_, _, _)
ForEach(result, order, dir) ==
    IF order = <<>> THEN [ok |-> TRUE, result |-> result]
    ELSE LET file == Head(order)
             lang == Basename(file, ".json")
             parsed == JsonParse(dir[file])
         IN  IF parsed.ok
             THEN ForEach((lang :> parsed.value) @@ result, Tail(order), dir)
             ELSE [ok |-> FALSE, result |-> result]

\* the orders in which glob may return a set of files
Orders(files) ==
    {o \in [1..Cardinality(files) -> files] :
        \A i, j \in 1..Cardinality(files) : i # j => o[i] # o[j]}

MaxFiles == 3

NoTable == [written |-> FALSE, doc |-> <<>>]

InitAgg ==
    /\ \E names \in SUBSET FileNames :
          /\ Cardinality(names) <= MaxFiles
          /\ langDir \in [names -> JsonTexts]
    /\ table = NoTable
    /\ aggpc = "start"
    /\ NoPipe /\ NoInline /\ NoStamp /\ NoPack

\* genTranslations(src, dst), lines 32-39: the table is written by line 38,
\* after the loop, or not at all
GenTranslationsCall ==
    /\ aggpc = "start"
    /\ \E order \in Orders(Glob(DOMAIN langDir)) :
          LET r == ForEach(<<>>, order, langDir)
          IN  IF r.ok
              THEN table' = [written |-> TRUE, doc |-> r.result] /\ aggpc' = "written"
              ELSE table' = table /\ aggpc' = "threw"
    /\ UNCHANGED <<langDir, pipeVars, inlineVars, stampVars, packVars>>

NextAgg == GenTranslationsCall

SpecAgg == InitAgg /\ [][NextAgg]_vars

\* the per-language documents of the source directory
LangDocs == DOMAIN langDir \cap LangDocNames

\* a per-language document's base name with its extension stripped
Stem(name) == SubSeq(name, 1, Len(name) - 1)

\* C10: the table written has exactly one top-level key per per-language
\* document, the document's base name without its extension, with the
\* document's parsed content as value; a directory without per-language
\* documents gives the empty mapping and no error.
C10_TableHasOneKeyPerDocument ==
    /\ aggpc = "written" =>
          /\ table.written
          /\ DOMAIN table.doc = {Stem(n) : n \in LangDocs}
          /\ Cardinality(DOMAIN table.doc) = Cardinality(LangDocs)
          /\ \A n \in LangDocs : table.doc[Stem(n)] = JsonParse(langDir[n]).value
    /\ (aggpc # "start" /\ LangDocs = {}) =>
          aggpc = "written" /\ table.written /\ DOMAIN table.doc = {}

\* C10 witness: a table written from two or more per-language documents that
\* stood beside a file that is not one
C10_Witness ==
    /\ aggpc = "written"
    /\ Cardinality(LangDocs) >= 2
    /\ DOMAIN langDir \ LangDocNames # {}
    /\ \E n \in LangDocs : DOMAIN table.doc[Stem(n)] # {}

\* a per-language document of the source directory that JSON.parse rejects
Malformed == {n \in LangDocs : ~JsonParse(langDir[n]).ok}

\* C11: no partial aggregation: when a per-language document is malformed the
\* call throws and no table is written, in whatever order the files were
\* enumerated.
C11_NoPartialTable ==
    (aggpc # "start" /\ Malformed # {}) => (aggpc = "threw" /\ table = NoTable)

\* C11 witness: the call threw on a directory that holds a malformed document
\* beside a well-formed, non-empty one
C11_Witness ==
    /\ aggpc = "threw"
    /\ Malformed # {}
    /\ \E n \in LangDocs \ Malformed : DOMAIN JsonParse(langDir[n]).value # {}

(***************************************************************************)
(* PART 4.  genManifest(src, dst), lines 42-47.  A JSON text is a sequence *)
(* of tokens as in PART 3; an object in memory is its own keys in          *)
(* insertion order together with the value of each key.                    *)
(***************************************************************************)
\* the value of a property that an object does not have
Undefined == "undefined"

\* the longest member list of the documents that are tried
MaxFields == 2

FieldKeys == {"name", "version"}

FieldValues == {"viper", "1.2.3"}

\* the text of an object literal with the given members, one after the other
RECURSIVE MembersText(_)
MembersText(members) ==
    IF members = <<>> THEN <<>>
    ELSE <<Head(members)[1], ":", Head(members)[2]>>
         \o (IF Len(members) > 1 THEN <<",">> \o MembersText(Tail(members)) ELSE <<>>)

\* the documents tried as package.json and as the template: every member list
\* up to MaxFields members, repeated keys included, and two that do not parse
StampTexts ==
    {<<"{">> \o MembersText(m) \o <<"}">> :
        m \in UNION {[1..k -> FieldKeys \X FieldValues] : k \in 0..MaxFields}}
    \cup {<<"{", "name", ":">>, <<>>}

\* the keys of a member list in the order in which each first occurs
RECURSIVE FirstKeys(_, _)
FirstKeys(pairs, seen) ==
    IF pairs = <<>> THEN <<>>
    ELSE IF Head(pairs)[1] \in seen THEN FirstKeys(Tail(pairs), seen)
    ELSE <<Head(pairs)[1]>> \o FirstKeys(Tail(pairs), seen \cup {Head(pairs)[1]})

\* the object JSON.parse builds from a text that parses, lines 43-44
ParsedObject(text) ==
    [keys |-> IF text = <<"{", "}">> THEN <<>>
              ELSE FirstKeys(ParseMembers(Tail(text)).pairs, {}),
     at   |-> JsonParse(text).value]

\* obj.key, which is undefined when obj has no such property
Get(obj, key) == IF key \in DOMAIN obj.at THEN obj.at[key] ELSE Undefined

\* Assign as it would be if the stamped document were built anew
Assign_Fresh(obj, key, value) ==
    [keys |-> <<key>>, at |-> [x \in {key} |-> value]]

\* obj.key = value, line 45: a new key is added last, an old one keeps its place
Assign(obj, key, value) ==
    [keys |-> IF key \in DOMAIN obj.at THEN obj.keys ELSE Append(obj.keys, key),
     at   |-> [x \in DOMAIN obj.at \cup {key} |-> IF x = key THEN value ELSE obj.at[x]]]

\* JSON.stringify as jsonfile calls it, line 46: a property whose value is
\* undefined is left out
JsonStringify(obj) ==
    LET kept == SelectSeq(obj.keys, LAMBDA k : obj.at[k] # Undefined)
    IN  <<"{">> \o MembersText([i \in 1..Len(kept) |-> <<kept[i], obj.at[kept[i]]>>])
        \o <<"}">>

NoManifest == [state |-> "start", text |-> <<>>]

InitStamp ==
    /\ stampIn \in [pkg : StampTexts, template : StampTexts]
    /\ manifest = NoManifest
    /\ NoPipe /\ NoInline /\ NoAgg /\ NoPack

\* one call of genManifest: either JSON.parse throws and nothing is written, or
\* the template is written with its version property assigned
GenManifestCall ==
    /\ manifest.state = "start"
    /\ IF JsonParse(stampIn.pkg).ok /\ JsonParse(stampIn.template).ok
       THEN LET pkg == ParsedObject(stampIn.pkg)
                result == Assign(ParsedObject(stampIn.template), "version",
                                 Get(pkg, "version"))
            IN  manifest' = [state |-> "written", text |-> JsonStringify(result)]
       ELSE manifest' = [state |-> "threw", text |-> <<>>]
    /\ UNCHANGED <<stampIn, pipeVars, inlineVars, aggVars, packVars>>

NextStamp == GenManifestCall

SpecStamp == InitStamp /\ [][NextStamp]_vars

\* the package document gives the project a version
HasVersion == JsonParse(stampIn.pkg).ok /\ "version" \in DOMAIN JsonParse(stampIn.pkg).value

\* C12: whenever a manifest was written for a project that has a version, the
\* manifest read back has that version, has every other field of the template
\* with the template's value, and has no field besides these.
C12_OnlyVersionStamped ==
    (manifest.state = "written" /\ HasVersion) =>
        LET out == JsonParse(manifest.text)
            tpl == JsonParse(stampIn.template).value
        IN  /\ out.ok
            /\ DOMAIN out.value = DOMAIN tpl \cup {"version"}
            /\ out.value["version"] = JsonParse(stampIn.pkg).value["version"]
            /\ \A k \in DOMAIN tpl \ {"version"} : out.value[k] = tpl[k]

\* C12 witness: a template with another field and without a version was stamped
C12_Witness ==
    /\ manifest.state = "written" /\ HasVersion
    /\ "version" \notin DOMAIN JsonParse(stampIn.template).value
    /\ "name" \in DOMAIN JsonParse(stampIn.template).value

\* C12 witness for the other case: the template's own version was overwritten
C12_WitnessOverwrite ==
    /\ manifest.state = "written" /\ HasVersion
    /\ "version" \in DOMAIN JsonParse(stampIn.template).value
    /\ JsonParse(stampIn.template).value["version"] # JsonParse(stampIn.pkg).value["version"]

(***************************************************************************)
(* PART 5.  genTar(src, dst), lines 50-61, run once on each of two source  *)
(* directories that hold the same entries with the same contents.  What    *)
(* tar.c records of an entry is decided by the options of lines 52-58; the *)
(* entries are packed in the order of the list of line 59.                 *)
(***************************************************************************)
Builds == {"first", "second"}

EntryNames == {"boot.py", "main.py"}

EntryContents == {"x", "y"}

SourceRoots == {"/home/dev/viper/src/tools_vfs", "/ci/work/src/tools_vfs"}

MTimes == {"t1", "t2"}

\* permission bits of an entry
Modes == {"644", "664", "755"}

\* the orders in which readdirSync may return a set of names, line 59
Listings(names) ==
    {o \in [1..Cardinality(names) -> names] : {o[i] : i \in 1..Len(o)} = names}

\* one source directory as one build finds it
SourceDirs(names) ==
    [root : SourceRoots, listing : Listings(names),
     mtime : [names -> MTimes], mode : [names -> Modes]]

\* the options of lines 52-58; file and cwd are the arguments of genTar
tarOptions == [gzip |-> TRUE, portable |-> TRUE, noMtime |-> TRUE]

\* the path under which an entry is stored: the list holds names relative to
\* cwd (lines 55 and 59), and a relative name is stored as it is given
EntryPath(cwd, file) == file

\* HeaderMtime as it would be without noMtime
HeaderMtime_Kept(options, mtime) == mtime

\* the modification time in an entry's header, line 57
HeaderMtime(options, mtime) == IF options.noMtime THEN Undefined ELSE mtime

\* the permission bits in an entry's header, line 56: portable clears the
\* write bits of group and others and keeps the rest
HeaderMode(options, mode) ==
    IF options.portable /\ mode = "664" THEN "644" ELSE mode

\* the archive tar.c writes for the list files of the directory dir
Pack(options, dir, files, data) ==
    [gzip    |-> options.gzip,
     entries |-> [i \in 1..Len(files) |->
                    [path  |-> EntryPath(dir.root, files[i]),
                     mode  |-> HeaderMode(options, dir.mode[files[i]]),
                     mtime |-> HeaderMtime(options, dir.mtime[files[i]]),
                     body  |-> data[files[i]]]]]

NoArchive == [gzip |-> FALSE, entries |-> <<>>]

InitPack ==
    /\ \E names \in SUBSET EntryNames :
          vfs \in [data : [names -> EntryContents], dir : [Builds -> SourceDirs(names)]]
    /\ archive = [b \in Builds |-> NoArchive]
    /\ NoPipe /\ NoInline /\ NoAgg /\ NoStamp

\* one build's call of genTar, taken up to the archive being complete
GenTarCall(b) ==
    /\ archive[b] = NoArchive
    /\ archive' = [archive EXCEPT
                      ![b] = Pack(tarOptions, vfs.dir[b], vfs.dir[b].listing, vfs.data)]
    /\ UNCHANGED <<vfs, pipeVars, inlineVars, aggVars, stampVars>>

GenTarFirst == GenTarCall("first")

GenTarSecond == GenTarCall("second")

NextPack == GenTarFirst \/ GenTarSecond

SpecPack == InitPack /\ [][NextPack]_vars

BothPacked == \A b \in Builds : archive[b] # NoArchive

SameListing == vfs.dir["first"].listing = vfs.dir["second"].listing

SameModes == vfs.dir["first"].mode = vfs.dir["second"].mode

\* C13 as stated: two builds of directories with the same entry names and
\* contents write the same archive, whatever the modification times, the
\* location of the directory and the order of its listing.
C13_SameArchive == BothPacked => archive["first"] = archive["second"]

\* C13 amended: two builds of directories with the same entry names, permission
\* bits and contents, listed in the same order, write the same archive,
\* whatever the modification times and the location of the directory.
C13_SameArchiveGivenListing ==
    (BothPacked /\ SameListing /\ SameModes) => archive["first"] = archive["second"]

\* C13 witness: two entries were packed twice, from different places and with
\* different modification times
C13_Witness ==
    /\ BothPacked /\ SameListing /\ SameModes
    /\ Len(vfs.dir["first"].listing) = 2
    /\ vfs.dir["first"].root # vfs.dir["second"].root
    /\ \A n \in DOMAIN vfs.data : vfs.dir["first"].mtime[n] # vfs.dir["second"].mtime[n]

(***************************************************************************)
(* The order of the external tools and of the statements around them.      *)
(***************************************************************************)
\* main() has reached the first call of combine, line 109, or a later statement
AtInlinerOrLater == pc # "off" /\ Rank(pc) >= Rank("combineIndex")

\* C14: the tools run one at a time; the bundler is started only when the
\* linter has ended with success, so never after a linter failure; and main()
\* reaches the first call of combine only when the bundler has ended with success.
C14_ToolsGateEachOther ==
    /\ Cardinality({c \in Commands : child[c] = "running"}) <= 1
    /\ child["npm run build"] # "none" => child["npx eslint"] = "ok"
    /\ child["npx eslint"] = "failed" => child["npm run build"] = "none"
    /\ AtInlinerOrLater => child["npm run build"] = "ok"
    /\ (\E d \in HtmlNames : fs[B(d)] = "inlined") => child["npm run build"] = "ok"

\* C14 witness: linter, then bundler, then the first document was inlined
C14_Witness ==
    /\ child["npx eslint"] = "ok" /\ child["npm run build"] = "ok"
    /\ fs[B("index.html")] = "inlined"

\* C14 witness for the failure case: the linter failed and the run has ended
C14_WitnessLinterFailed ==
    /\ child["npx eslint"] = "failed" /\ exit = "1" /\ pc = "eslintWait"

CombinePcs == {"combineIndex", "combineBridge", "combineBenchmark"}

\* this step is a call of combine, whether it returns or throws
InlinerStep == pc \in CombinePcs /\ (pc' # pc \/ exit' # exit)

\* C17: a call of combine is made only when the bundler has ended with success
\* and fs.unlinkSync has removed nothing yet, so nothing it reads was deleted by
\* the cleanup; and the cleanup removes a file only when all three documents
\* have been inlined.
C17_InlineWindow ==
    [][/\ InlinerStep => (child["npm run build"] = "ok" /\ unlinked = {})
       /\ unlinked' # {} => \A d \in HtmlNames : fs'[B(d)] = "inlined"]_vars

\* C17 witness: the three documents are inlined and the cleanup has begun
C17_Witness ==
    /\ unlinked # {}
    /\ \A d \in HtmlNames : fs[B(d)] = "inlined"
    /\ child["npm run build"] = "ok"

\* C19: a file that fs.cpSync staged in build/assets is left as staged by every
\* later step of the run: neither an archive write nor a vendor copy replaces it.
C19_StagedNeverOverwritten ==
    [][\A p \in Paths : fs[p] = "static" => fs'[p] = "static"]_vars

\* C15: whatever the document, and for files that do not themselves quote a
\* placeholder, the document combine writes is the document that the four
\* replacements give in each of the 24 orders.
C15_OrderIndependent ==
    (runs = 1 /\ ~threw /\ NoPlaceholderInFiles) =>
        \A o \in ReplacementOrders : ReplaceAll(html0, o, compiled) = html

\* the parts of a document outside its placeholders: the text before the
\* first, between each two, and after the last
RECURSIVE OutsideParts(_)
OutsideParts(document) ==
    IF \A i \in 1..Len(document) : document[i] \notin Placeholders THEN <<document>>
    ELSE LET i == CHOOSE k \in 1..Len(document) :
                     /\ document[k] \in Placeholders
                     /\ \A j \in 1..(k - 1) : document[j] \notin Placeholders
         IN  <<SubSeq(document, 1, i - 1)>>
                \o OutsideParts(SubSeq(document, i + 1, Len(document)))

\* text is something, then the first of parts, then something, then the
\* second, and so on, and ends with the last of them
RECURSIVE EndsEachSpan(_, _)
EndsEachSpan(text, parts) ==
    IF parts = <<>> THEN text = <<>>
    ELSE \E k \in 0..(Len(text) - Len(Head(parts))) :
            /\ SubSeq(text, k + 1, k + Len(Head(parts))) = Head(parts)
            /\ EndsEachSpan(SubSeq(text, k + Len(Head(parts)) + 1, Len(text)), Tail(parts))

\* after is before with each placeholder span replaced by some text
FrameKept(before, after) ==
    LET parts == OutsideParts(before)
    IN  /\ Len(after) >= Len(parts[1])
        /\ SubSeq(after, 1, Len(parts[1])) = parts[1]
        /\ EndsEachSpan(SubSeq(after, Len(parts[1]) + 1, Len(after)), Tail(parts))

\* C16: for a document with each placeholder exactly once and any readable
\* files, the document combine writes is the old one with the four placeholder
\* spans replaced: the text before, between and after them is kept, in order.
C16_FrameKept ==
    (WellFormed(html0) /\ runs = 1 /\ ~threw) => FrameKept(html0, html)

\* C16 witness: a document with text between its placeholders was rewritten
\* from files one of which holds a "$" pattern
C16_Witness ==
    /\ WellFormed(html0) /\ runs = 1 /\ ~threw
    /\ CountSub(html0, <<"t">>) >= 3
    /\ \E f \in CompiledNames : compiled[f] = <<"$", Apostrophe>>
    /\ html # html0

\* the compiled files that cannot be read
Missing == {f \in CompiledNames : compiled[f] = NoFile}

\* C18: a call of combine with a compiled file missing throws, whether or not
\* the document holds that file's placeholder, and leaves the document on disk
\* as it was.
C18_MissingFileFailsCleanly ==
    [][(runs' = runs + 1 /\ Missing # {}) => (threw' /\ html' = html)]_vars

\* C18 witness: the call threw for a missing file whose placeholder the
\* document does not hold, while it holds another file's placeholder
C18_Witness ==
    /\ runs = 1 /\ threw /\ html = html0
    /\ \E f \in Missing : \A ph \in Placeholders : FileOf(ph) = f => CountSub(html0, <<ph>>) = 0
    /\ \E ph \in Placeholders : FileOf(ph) \notin Missing /\ CountSub(html0, <<ph>>) = 1

====
